---------------------------- MODULE Spec2Model ----------------------------
(***************************************************************************)
(* A model of src/rust/src/lib.rs: the download engine (download_file),    *)
(* the hasher (verify_checksum) and the metadata prober (get_file_info).   *)
(*                                                                         *)
(* Three specifications share the module:                                  *)
(*   Spec        successive download_file calls on one output path         *)
(*   SpecVerify  one verify_checksum call                                  *)
(*   SpecProbe   one get_file_info call                                    *)
(*                                                                         *)
(* Conventions.  An Option<T> is a sequence of length 0 (None) or 1        *)
(* (Some).  A string the code inspects character by character is a         *)
(* sequence of one-character strings.  The output path's file system       *)
(* entry is (fileExists, fileData); Path::exists and Path::metadata are    *)
(* the same stat call and no other writer touches the path (spec section   *)
(* 5), so they agree.                                                      *)
(***************************************************************************)
EXTENDS Integers, Sequences, FiniteSets, TLC

\* ------------------------------------------------------------------ bounds

\* Length of the remote resource, in bytes.
ContentLen == 3
\* Largest chunk the response stream hands over at once.
MaxChunk == 2
\* Number of successive download_file calls on the same output path.
MaxCalls == 2

\* The remote content: pairwise distinct bytes, so that a prefix, a
\* duplicated prefix and a gap are all told apart.
Content == [i \in 1..ContentLen |-> i]

\* ----------------------------------------------------------------- helpers

None == << >>
Some(x) == << x >>
IsSome(o) == Len(o) = 1

Min(a, b) == IF a < b THEN a ELSE b

Take(s, n) == SubSeq(s, 1, n)
Drop(s, n) == SubSeq(s, n + 1, Len(s))

IsPrefix(p, s) == Len(p) <= Len(s) /\ Take(s, Len(p)) = p

\* ------------------------------------------------------------- the server

\* A server that serves Content and honours `Range: bytes=<n>-`: the whole
\* body with 200 when no range is asked, the remainder with 206, and 416
\* when the range starts at or after the end.
HonestResponse(range) ==
  IF ~IsSome(range) THEN [status |-> 200, body |-> Content]
  ELSE IF range[1] < ContentLen
       THEN [status |-> 206, body |-> Drop(Content, range[1])]
       ELSE [status |-> 416, body |-> << >>]

\* A server that ignores the Range header: 200 and the whole body.
IgnoringResponse == [status |-> 200, body |-> Content]

\* Statuses a server may answer besides the two above, each with no body;
\* 199, 299 and 300 are the edges of the 2xx class.
OtherStatuses == {199, 204, 299, 300, 404, 416, 500}

Responses(range) ==
  {HonestResponse(range), IgnoringResponse}
    \cup {[status |-> s, body |-> << >>] : s \in OtherStatuses}

\* --------------------------------------------------------------- variables

VARIABLES
  \* the output path on disk
  fileExists,     \* the path exists
  fileData,       \* its bytes (<< >> when it does not exist)
  \* one download_file call
  pc,             \* "idle", "setup", "send", "stream", "write", "callback", "done"
  callNo,         \* which call on this path this is (1-based once begun)
  resume,         \* the resume argument
  hasCallback,    \* progress_callback is Some
  start_pos,      \* lib.rs:85
  reqRange,       \* the Range header of the GET: None or Some(n) for bytes=n-
  response,       \* Option: the response received, [status, body, content_length]
  total_size,     \* lib.rs:110
  downloaded,     \* lib.rs:117
  stream,         \* the bytes the body stream has yet to deliver
  chunk,          \* the chunk read and not yet written
  result,         \* Option<DownloadResult>: what the call returned
  error,          \* Option: the error the call propagated
  \* what happened during the call (history)
  honest,         \* every response so far, in every call, was the honest server's
  startExists,    \* fileExists when the call began
  startData,      \* fileData when the call began
  opened,         \* the call opened (appended to, created or truncated) the file
  nRequests,      \* GET requests sent
  chunkLens,      \* lengths of the chunks read from the stream, in order
  nWritten,       \* chunks written in full
  nCallbacks,     \* callback invocations
  cbArgs,         \* the (downloaded, total_size) of each invocation, in order
  cancelled,      \* an invocation of the callback failed
  endedBy,        \* how the call ended
  \* one verify_checksum call
  vpc, algorithm, expected, vExists, vData, vOpened, vPos, buffer, hasher,
  nReads, vResult, vError,
  \* one get_file_info call
  ppc, headStatus, headLength, headAcceptRanges, headContentType, info, pError

fsVars == <<fileExists, fileData>>
callVars == <<pc, callNo, resume, hasCallback, start_pos, reqRange, response,
              total_size, downloaded, stream, chunk, result, error>>
histVars == <<honest, startExists, startData, opened, nRequests, chunkLens,
              nWritten, nCallbacks, cbArgs, cancelled, endedBy>>
downloadVars == <<fsVars, callVars, histVars>>
verifyVars == <<vpc, algorithm, expected, vExists, vData, vOpened, vPos, buffer,
                hasher, nReads, vResult, vError>>
probeVars == <<ppc, headStatus, headLength, headAcceptRanges, headContentType,
               info, pError>>
vars == <<downloadVars, verifyVars, probeVars>>

\* ------------------------------------------------------ download_file, pure

\* StartPos with the resume flag not consulted.
StartPos_IgnoreResume(r, exists, data) == IF exists THEN Len(data) ELSE 0

\* lib.rs:85-92: the resume cursor is the on-disk length.
StartPos(r, exists, data) == IF r /\ exists THEN Len(data) ELSE 0

\* RangeHeader with the header forgotten.
RangeHeader_Never(pos) == None

\* lib.rs:95-98: the Range header is attached only for a positive offset.
RangeHeader(pos) == IF pos > 0 THEN Some(pos) ELSE None

\* StatusCode::is_success: 200..=299.
IsSuccess(status) == 200 <= status /\ status <= 299

\* IsAccepted taking every status below 400 for a success.
IsAccepted_Below400(status) == status < 400

\* IsAccepted taking 416 Range Not Satisfiable for "already complete".
IsAccepted_Or416(status) == IsSuccess(status) \/ status = 206 \/ status = 416

\* lib.rs:102: the statuses accepted as the start of a body.
IsAccepted(status) == IsSuccess(status) \/ status = 206

\* lib.rs:106: format!("HTTP error: {}", response.status()); the status
\* prints as its code followed by its reason phrase.
HttpErrorMessage(status) == [text |-> "HTTP error: ", code |-> status]

\* SoftFailure with the message left out.
SoftFailure_NoMessage(status) ==
  [success |-> FALSE, bytes_downloaded |-> 0, error_message |-> None]

\* lib.rs:103-107
SoftFailure(status) ==
  [success |-> FALSE, bytes_downloaded |-> 0,
   error_message |-> Some(HttpErrorMessage(status))]

\* lib.rs:139-143
SuccessResult(n) ==
  [success |-> TRUE, bytes_downloaded |-> n, error_message |-> None]

\* lib.rs:110: content_length().unwrap_or(0) + start_pos
TotalSize(content_length, pos) ==
  (IF IsSome(content_length) THEN content_length[1] ELSE 0) + pos

\* OpenedData with the file always opened for appending.
OpenedData_AlwaysAppend(pos, data) == data

\* lib.rs:111-115: what the file holds once opened: kept when appending,
\* emptied by File::create.
OpenedData(pos, data) == IF pos > 0 THEN data ELSE << >>

\* DownloadedAtOpen counting only this call's bytes.
DownloadedAtOpen_Zero(pos) == 0

\* lib.rs:117: the running total starts at the resume cursor.
DownloadedAtOpen(pos) == pos

\* AfterWrite with the callback never called.
AfterWrite_Skip(cb) == "stream"

\* lib.rs:128-136: where the loop goes after a chunk is written.
AfterWrite(cb) == IF cb THEN "callback" ELSE "stream"

\* AfterCallback with the callback's failure ignored.
AfterCallback_Ignore(failed) == "stream"

\* lib.rs:133-135: a failed callback breaks out of the loop.
AfterCallback(failed) == IF failed THEN "done" ELSE "stream"

\* --------------------------------------------------- download_file, actions

HardErrors == {"IoError", "NetworkError"}

\* The state between two calls: nothing of a call is left but the file.
CallIdle ==
  /\ pc = "idle" /\ resume = FALSE /\ hasCallback = FALSE
  /\ start_pos = 0 /\ reqRange = None /\ response = None
  /\ total_size = 0 /\ downloaded = 0 /\ stream = << >> /\ chunk = << >>
  /\ result = None /\ error = None
  /\ startExists = FALSE /\ startData = << >> /\ opened = FALSE
  /\ nRequests = 0 /\ chunkLens = << >> /\ nWritten = 0 /\ nCallbacks = 0
  /\ cbArgs = << >> /\ cancelled = FALSE /\ endedBy = "none"

DownloadInit ==
  /\ fileExists = FALSE /\ fileData = << >>
  /\ callNo = 0 /\ honest = TRUE
  /\ CallIdle

\* Propagate with the error turned into a success=false result.
Propagate_AsResult(kind, how) ==
  /\ pc' = "done"
  /\ error' = None
  /\ result' = Some([success |-> FALSE, bytes_downloaded |-> 0,
                     error_message |-> Some(kind)])
  /\ endedBy' = how

\* Propagate with the request sent again after a failure.
Propagate_Retry(kind, how) ==
  /\ pc' = "send"
  /\ error' = None
  /\ result' = None
  /\ endedBy' = how

\* The call propagates a hard error: `?` returns it, no DownloadResult exists.
Propagate(kind, how) ==
  /\ pc' = "done"
  /\ error' = Some(kind)
  /\ result' = None
  /\ endedBy' = how

\* The call returns Ok(DownloadResult).
ReturnResult(r, how) ==
  /\ pc' = "done"
  /\ result' = Some(r)
  /\ error' = None
  /\ endedBy' = how

\* download_file is entered with its arguments (lib.rs:71-77).
Begin(r, cb) ==
  /\ pc = "idle" /\ callNo < MaxCalls
  /\ pc' = "setup"
  /\ callNo' = callNo + 1
  /\ resume' = r /\ hasCallback' = cb
  /\ startExists' = fileExists /\ startData' = fileData
  /\ UNCHANGED <<fsVars, start_pos, reqRange, response, total_size, downloaded,
                 stream, chunk, result, error, honest, opened, nRequests,
                 chunkLens, nWritten, nCallbacks, cbArgs, cancelled, endedBy>>
  /\ UNCHANGED <<verifyVars, probeVars>>

\* lib.rs:78-82: Runtime::new()? (an io::Error) or Client::builder().build()?
\* (a reqwest::Error) fails.
SetupFail(kind) ==
  /\ pc = "setup"
  /\ Propagate(kind, "setup")
  /\ UNCHANGED <<fsVars, callNo, resume, hasCallback, start_pos, reqRange,
                 response, total_size, downloaded, stream, chunk, honest,
                 startExists, startData, opened, nRequests, chunkLens,
                 nWritten, nCallbacks, cbArgs, cancelled>>
  /\ UNCHANGED <<verifyVars, probeVars>>

\* lib.rs:84-98: the resume cursor and the request.
Prepare ==
  /\ pc = "setup"
  /\ pc' = "send"
  /\ start_pos' = StartPos(resume, fileExists, fileData)
  /\ reqRange' = RangeHeader(start_pos')
  /\ UNCHANGED <<fsVars, callNo, resume, hasCallback, response, total_size,
                 downloaded, stream, chunk, result, error, histVars>>
  /\ UNCHANGED <<verifyVars, probeVars>>

\* SendFail with the output file opened before the request is sent.
SendFail_AfterOpen ==
  /\ pc = "send"
  /\ nRequests' = nRequests + 1
  /\ fileExists' = TRUE
  /\ fileData' = OpenedData(start_pos, fileData)
  /\ opened' = TRUE
  /\ Propagate("NetworkError", "send")
  /\ UNCHANGED <<callNo, resume, hasCallback, start_pos, reqRange,
                 response, total_size, downloaded, stream, chunk, honest,
                 startExists, startData, chunkLens, nWritten,
                 nCallbacks, cbArgs, cancelled>>
  /\ UNCHANGED <<verifyVars, probeVars>>

\* lib.rs:100: request.send().await? fails (connect, timeout, transport).
SendFail ==
  /\ pc = "send"
  /\ nRequests' = nRequests + 1
  /\ Propagate("NetworkError", "send")
  /\ UNCHANGED <<fsVars, callNo, resume, hasCallback, start_pos, reqRange,
                 response, total_size, downloaded, stream, chunk, honest,
                 startExists, startData, opened, chunkLens, nWritten,
                 nCallbacks, cbArgs, cancelled>>
  /\ UNCHANGED <<verifyVars, probeVars>>

\* The response as the call sees it; cl is its content_length().
Received(resp, cl) ==
  /\ nRequests' = nRequests + 1
  /\ response' = Some([status |-> resp.status, body |-> resp.body,
                       content_length |-> cl])
  /\ honest' = (honest /\ resp = HonestResponse(reqRange))

\* lib.rs:100-108: a status outside the accepted set is a soft failure.
RecvRejected(resp, cl) ==
  /\ pc = "send"
  /\ ~IsAccepted(resp.status)
  /\ Received(resp, cl)
  /\ ReturnResult(SoftFailure(resp.status), "soft")
  /\ UNCHANGED <<fsVars, callNo, resume, hasCallback, start_pos, reqRange,
                 total_size, downloaded, stream, chunk, startExists, startData,
                 opened, chunkLens, nWritten, nCallbacks, cbArgs, cancelled>>
  /\ UNCHANGED <<verifyVars, probeVars>>

\* lib.rs:100-119: an accepted status; the file is opened and the loop begins.
RecvAccepted(resp, cl) ==
  /\ pc = "send"
  /\ IsAccepted(resp.status)
  /\ Received(resp, cl)
  /\ total_size' = TotalSize(cl, start_pos)
  /\ fileExists' = TRUE
  /\ fileData' = OpenedData(start_pos, fileData)
  /\ opened' = TRUE
  /\ downloaded' = DownloadedAtOpen(start_pos)
  /\ stream' = resp.body
  /\ pc' = "stream"
  /\ UNCHANGED <<callNo, resume, hasCallback, start_pos, reqRange, chunk,
                 result, error, startExists, startData, chunkLens, nWritten,
                 nCallbacks, cbArgs, cancelled, endedBy>>
  /\ UNCHANGED <<verifyVars, probeVars>>

\* lib.rs:111-115: OpenOptions::open or File::create fails; the path is left
\* as it was.
RecvOpenFail(resp, cl) ==
  /\ pc = "send"
  /\ IsAccepted(resp.status)
  /\ Received(resp, cl)
  /\ total_size' = TotalSize(cl, start_pos)
  /\ Propagate("IoError", "open")
  /\ UNCHANGED <<fsVars, callNo, resume, hasCallback, start_pos, reqRange,
                 downloaded, stream, chunk, startExists, startData, opened,
                 chunkLens, nWritten, nCallbacks, cbArgs, cancelled>>
  /\ UNCHANGED <<verifyVars, probeVars>>

\* lib.rs:121-122: stream.next().await yields Some(Ok(chunk)), a non-empty
\* piece of what the body has yet to deliver.
ReadChunk(n) ==
  /\ pc = "stream"
  /\ n \in 1..Min(MaxChunk, Len(stream))
  /\ chunk' = Take(stream, n)
  /\ stream' = Drop(stream, n)
  /\ chunkLens' = Append(chunkLens, n)
  /\ pc' = "write"
  /\ UNCHANGED <<fsVars, callNo, resume, hasCallback, start_pos, reqRange,
                 response, total_size, downloaded, result, error, honest,
                 startExists, startData, opened, nRequests, nWritten,
                 nCallbacks, cbArgs, cancelled, endedBy>>
  /\ UNCHANGED <<verifyVars, probeVars>>

\* lib.rs:121-122: stream.next().await yields Some(Err(e)); `chunk_result?`.
ReadFail ==
  /\ pc = "stream"
  /\ Propagate("NetworkError", "read")
  /\ UNCHANGED <<fsVars, callNo, resume, hasCallback, start_pos, reqRange,
                 response, total_size, downloaded, stream, chunk, honest,
                 startExists, startData, opened, nRequests, chunkLens,
                 nWritten, nCallbacks, cbArgs, cancelled>>
  /\ UNCHANGED <<verifyVars, probeVars>>

\* lib.rs:121, 139-143: stream.next().await yields None.
StreamEnd ==
  /\ pc = "stream"
  /\ stream = << >>
  /\ ReturnResult(SuccessResult(downloaded), "exhausted")
  /\ UNCHANGED <<fsVars, callNo, resume, hasCallback, start_pos, reqRange,
                 response, total_size, downloaded, stream, chunk, honest,
                 startExists, startData, opened, nRequests, chunkLens,
                 nWritten, nCallbacks, cbArgs, cancelled>>
  /\ UNCHANGED <<verifyVars, probeVars>>

\* lib.rs:124-125: write_all succeeds.
WriteOk ==
  /\ pc = "write"
  /\ fileData' = fileData \o chunk
  /\ downloaded' = downloaded + Len(chunk)
  /\ chunk' = << >>
  /\ nWritten' = nWritten + 1
  /\ pc' = AfterWrite(hasCallback)
  /\ UNCHANGED <<fileExists, callNo, resume, hasCallback, start_pos, reqRange,
                 response, total_size, stream, result, error, honest,
                 startExists, startData, opened, nRequests, chunkLens,
                 nCallbacks, cbArgs, cancelled, endedBy>>
  /\ UNCHANGED <<verifyVars, probeVars>>

\* lib.rs:124: write_all fails after j bytes of the chunk reached the file.
WriteFail(j) ==
  /\ pc = "write"
  /\ j \in 0..(Len(chunk) - 1)
  /\ fileData' = fileData \o Take(chunk, j)
  /\ Propagate("IoError", "write")
  /\ UNCHANGED <<fileExists, callNo, resume, hasCallback, start_pos, reqRange,
                 response, total_size, downloaded, stream, chunk, honest,
                 startExists, startData, opened, nRequests, chunkLens,
                 nWritten, nCallbacks, cbArgs, cancelled>>
  /\ UNCHANGED <<verifyVars, probeVars>>

\* lib.rs:128-136, 139-143: the callback is called with (downloaded,
\* total_size); when it fails the loop breaks and the call returns.
Callback(failed) ==
  /\ pc = "callback"
  /\ nCallbacks' = nCallbacks + 1
  /\ cbArgs' = Append(cbArgs, <<downloaded, total_size>>)
  /\ cancelled' = failed
  /\ IF AfterCallback(failed) = "done"
     THEN ReturnResult(SuccessResult(downloaded), "cancel")
     ELSE /\ pc' = AfterCallback(failed)
          /\ UNCHANGED <<result, error, endedBy>>
  /\ UNCHANGED <<fsVars, callNo, resume, hasCallback, start_pos, reqRange,
                 response, total_size, downloaded, stream, chunk, honest,
                 startExists, startData, opened, nRequests, chunkLens,
                 nWritten>>
  /\ UNCHANGED <<verifyVars, probeVars>>

\* The caller has the outcome; the next call on the same path may begin.
Return ==
  /\ pc = "done" /\ callNo < MaxCalls
  /\ pc' = "idle" /\ resume' = FALSE /\ hasCallback' = FALSE
  /\ start_pos' = 0 /\ reqRange' = None /\ response' = None
  /\ total_size' = 0 /\ downloaded' = 0 /\ stream' = << >> /\ chunk' = << >>
  /\ result' = None /\ error' = None
  /\ startExists' = FALSE /\ startData' = << >> /\ opened' = FALSE
  /\ nRequests' = 0 /\ chunkLens' = << >> /\ nWritten' = 0 /\ nCallbacks' = 0
  /\ cbArgs' = << >> /\ cancelled' = FALSE /\ endedBy' = "none"
  /\ UNCHANGED <<fsVars, callNo, honest>>
  /\ UNCHANGED <<verifyVars, probeVars>>

ContentLengths(resp) == {None, Some(Len(resp.body))}

DownloadNext ==
  \/ \E r \in BOOLEAN, cb \in BOOLEAN : Begin(r, cb)
  \/ \E kind \in HardErrors : SetupFail(kind)
  \/ Prepare
  \/ SendFail
  \/ \E resp \in Responses(reqRange) : \E cl \in ContentLengths(resp) :
        RecvRejected(resp, cl)
  \/ \E resp \in Responses(reqRange) : \E cl \in ContentLengths(resp) :
        RecvAccepted(resp, cl)
  \/ \E resp \in Responses(reqRange) : \E cl \in ContentLengths(resp) :
        RecvOpenFail(resp, cl)
  \/ \E n \in 1..MaxChunk : ReadChunk(n)
  \/ ReadFail
  \/ StreamEnd
  \/ WriteOk
  \/ \E j \in 0..(MaxChunk - 1) : WriteFail(j)
  \/ \E failed \in BOOLEAN : Callback(failed)
  \/ Return

\* ------------------------------------------------------------ idle parts

VerifyIdle ==
  /\ vpc = "idle" /\ algorithm = << >> /\ expected = << >>
  /\ vExists = FALSE /\ vData = << >> /\ vOpened = FALSE /\ vPos = 0
  /\ buffer = << >> /\ hasher = << >> /\ nReads = 0
  /\ vResult = None /\ vError = None

ProbeIdle ==
  /\ ppc = "idle" /\ headStatus = 0 /\ headLength = None
  /\ headAcceptRanges = None /\ headContentType = None
  /\ info = None /\ pError = None

\* ------------------------------------------------------- text and case

\* The upper-case letters the model's strings use, with their lower case.
LowerMap ==
  [A |-> "a", B |-> "b", C |-> "c", D |-> "d", E |-> "e", F |-> "f",
   H |-> "h", M |-> "m", R |-> "r", S |-> "s", T |-> "t", Y |-> "y"]

\* u8::to_ascii_lowercase, and char::to_lowercase on these letters.
ToLowerChar(c) == IF c \in DOMAIN LowerMap THEN LowerMap[c] ELSE c

\* str::to_lowercase
ToLowercase(str) == [i \in 1..Len(str) |-> ToLowerChar(str[i])]

\* str::eq_ignore_ascii_case
EqIgnoreAsciiCase(x, y) ==
  /\ Len(x) = Len(y)
  /\ \A i \in 1..Len(x) : ToLowerChar(x[i]) = ToLowerChar(y[i])

\* The upper case of a hexadecimal string, as a caller may write a digest.
ToUpperHex(str) ==
  [i \in 1..Len(str) |->
     CASE str[i] = "a" -> "A" [] str[i] = "b" -> "B" [] str[i] = "c" -> "C"
       [] str[i] = "d" -> "D" [] str[i] = "e" -> "E" [] str[i] = "f" -> "F"
       [] OTHER -> str[i]]

\* ------------------------------------------------------ verify_checksum

\* Length of the longest file verified.
MaxFileLen == 3
\* Size of the read buffer; it stands for the 8192 of lib.rs:158,175.
BufSize == 2

Sha256Name == <<"s", "h", "a", "2", "5", "6">>
Md5Name == <<"m", "d", "5">>

\* The algorithm arguments tried: the supported names in several cases, and
\* names that are not supported.
AlgorithmNames ==
  {Sha256Name, <<"S", "H", "A", "2", "5", "6">>, <<"S", "h", "a", "2", "5", "6">>,
   Md5Name, <<"M", "D", "5">>, <<"m", "D", "5">>,
   <<"c", "r", "c", "3", "2">>, <<"C", "R", "C", "3", "2">>,
   <<"s", "h", "a", "1">>, << >>}

\* SelectAlgorithm matching the name as written.
SelectAlgorithm_CaseSensitive(name) ==
  IF name = Sha256Name THEN "sha256"
  ELSE IF name = Md5Name THEN "md5"
  ELSE "unsupported"

\* lib.rs:154-155, 172, 189: match algorithm.to_lowercase().as_str()
SelectAlgorithm(name) ==
  IF ToLowercase(name) = Sha256Name THEN "sha256"
  ELSE IF ToLowercase(name) = Md5Name THEN "md5"
  ELSE "unsupported"

FileBytes == {7, 200}
RECURSIVE SeqsUpTo(_)
SeqsUpTo(n) ==
  IF n = 0 THEN {<< >>}
  ELSE LET shorter == SeqsUpTo(n - 1)
       IN shorter \cup {Append(q, b) : q \in {x \in shorter : Len(x) = n - 1},
                                       b \in FileBytes}
Files == SeqsUpTo(MaxFileLen)

\* The digest functions of the sha2 and md5 crates are stood for by two small
\* rolling hashes: a state, absorbed byte by byte in order, and a digest of a
\* fixed length that differs between the two.
HashInit(alg) == IF alg = "sha256" THEN 7 ELSE 3
HashMix(alg, h, b) ==
  IF alg = "sha256" THEN (h * 31 + b) % 251 ELSE (h * 17 + b) % 241

\* Sha256::new(), Md5::new()  (lib.rs:156, 173)
NewHasher(alg) == [alg |-> alg, h |-> HashInit(alg)]

RECURSIVE Absorb(_, _, _)
Absorb(alg, h, bytes) ==
  IF bytes = << >> THEN h
  ELSE Absorb(alg, HashMix(alg, h, bytes[1]), Tail(bytes))

\* hasher.update(bytes)  (lib.rs:165, 182)
HasherUpdate(hs, bytes) == [hs EXCEPT !.h = Absorb(hs.alg, hs.h, bytes)]

\* hasher.finalize()  (lib.rs:168, 185): the digest's bytes.
HasherFinalize(hs) ==
  IF hs.alg = "sha256" THEN <<hs.h, 255 - hs.h>> ELSE <<hs.h>>

HexDigits ==
  <<"0", "1", "2", "3", "4", "5", "6", "7", "8", "9",
    "a", "b", "c", "d", "e", "f">>

\* format!("{:x}", result)  (lib.rs:169, 186): two lower-case hexadecimal
\* digits a byte.
RECURSIVE LowerHex(_)
LowerHex(bytes) ==
  IF bytes = << >> THEN << >>
  ELSE <<HexDigits[(bytes[1] \div 16) + 1], HexDigits[(bytes[1] % 16) + 1]>>
         \o LowerHex(Tail(bytes))

\* The digest of a whole byte string, as a caller computes it beforehand.
DigestOf(alg, data) == LowerHex(HasherFinalize(HasherUpdate(NewHasher(alg), data)))

\* The expected arguments tried: the digests of the files under both
\* algorithms, in lower and in upper case, and the empty string.
ExpectedStrings ==
  LET digests == {DigestOf(alg, f) : alg \in {"sha256", "md5"}, f \in Files}
  IN digests \cup {ToUpperHex(d) : d \in digests} \cup {<< >>}

\* Filled with the stale tail of the buffer hashed too.
Filled_WholeBuffer(buf, n) == buf

\* lib.rs:165, 182: &buffer[..n]
Filled(buf, n) == Take(buf, n)

\* file.read(&mut buffer) stores n bytes at the front of the buffer.
ReadInto(buf, bytes) ==
  [i \in 1..Len(buf) |-> IF i <= Len(bytes) THEN bytes[i] ELSE buf[i]]

\* verify_checksum's arguments and the file at the path.
VerifyInit ==
  /\ vpc = "idle"
  /\ algorithm \in AlgorithmNames
  /\ expected \in ExpectedStrings
  /\ vExists \in BOOLEAN
  /\ vData \in Files
  /\ vExists = FALSE => vData = << >>
  /\ vOpened = FALSE /\ vPos = 0
  /\ buffer = << >> /\ hasher = << >> /\ nReads = 0
  /\ vResult = None /\ vError = None

\* lib.rs:154, 189-191: the name matches no arm.
VUnsupported ==
  /\ vpc = "idle"
  /\ SelectAlgorithm(algorithm) = "unsupported"
  /\ vError' = Some("ConfigurationError")
  /\ vpc' = "done"
  /\ UNCHANGED <<algorithm, expected, vExists, vData, vOpened, vPos, buffer,
                 hasher, nReads, vResult>>
  /\ UNCHANGED <<downloadVars, probeVars>>

\* lib.rs:155-158, 172-175: the hasher, the file and the buffer.
VOpen ==
  /\ vpc = "idle"
  /\ SelectAlgorithm(algorithm) # "unsupported"
  /\ vExists
  /\ vOpened' = TRUE
  /\ hasher' = Some(NewHasher(SelectAlgorithm(algorithm)))
  /\ buffer' = [i \in 1..BufSize |-> 0]
  /\ vpc' = "read"
  /\ UNCHANGED <<algorithm, expected, vExists, vData, vPos, nReads, vResult,
                 vError>>
  /\ UNCHANGED <<downloadVars, probeVars>>

\* lib.rs:157, 174: File::open(path)? fails: no such file, or not readable.
VOpenFail ==
  /\ vpc = "idle"
  /\ SelectAlgorithm(algorithm) # "unsupported"
  /\ vError' = Some("IoError")
  /\ vpc' = "done"
  /\ UNCHANGED <<algorithm, expected, vExists, vData, vOpened, vPos, buffer,
                 hasher, nReads, vResult>>
  /\ UNCHANGED <<downloadVars, probeVars>>

\* lib.rs:161-165, 178-182: a read of n > 0 bytes, short or full.
VRead(n) ==
  /\ vpc = "read"
  /\ n \in 1..Min(BufSize, Len(vData) - vPos)
  /\ buffer' = ReadInto(buffer, SubSeq(vData, vPos + 1, vPos + n))
  /\ hasher' = Some(HasherUpdate(hasher[1], Filled(buffer', n)))
  /\ vPos' = vPos + n
  /\ nReads' = nReads + 1
  /\ UNCHANGED <<vpc, algorithm, expected, vExists, vData, vOpened, vResult,
                 vError>>
  /\ UNCHANGED <<downloadVars, probeVars>>

\* lib.rs:161, 178: file.read(&mut buffer)? fails.
VReadFail ==
  /\ vpc = "read"
  /\ vError' = Some("IoError")
  /\ vpc' = "done"
  /\ nReads' = nReads + 1
  /\ UNCHANGED <<algorithm, expected, vExists, vData, vOpened, vPos, buffer,
                 hasher, vResult>>
  /\ UNCHANGED <<downloadVars, probeVars>>

\* lib.rs:161-163, 168-170, 194: a read of 0 bytes at end of file ends the loop;
\* the digest is formatted and compared.
VEof ==
  /\ vpc = "read"
  /\ vPos = Len(vData)
  /\ nReads' = nReads + 1
  /\ vResult' = Some(EqIgnoreAsciiCase(LowerHex(HasherFinalize(hasher[1])),
                                       expected))
  /\ vpc' = "done"
  /\ UNCHANGED <<algorithm, expected, vExists, vData, vOpened, vPos, buffer,
                 hasher, vError>>
  /\ UNCHANGED <<downloadVars, probeVars>>

VerifyNext ==
  \/ VUnsupported
  \/ VOpen
  \/ VOpenFail
  \/ \E n \in 1..BufSize : VRead(n)
  \/ VReadFail
  \/ VEof

\* --------------------------------------------------------- get_file_info

\* Characters of a header value that are not visible ASCII (HeaderValue
\* admits the bytes 0x80..0xFF; HeaderValue::to_str refuses them).
NonAscii == {"\\xE9"}

BytesText == <<"b", "y", "t", "e", "s">>
OctetStream ==
  <<"a", "p", "p", "l", "i", "c", "a", "t", "i", "o", "n", "/",
    "o", "c", "t", "e", "t", "-", "s", "t", "r", "e", "a", "m">>

\* The statuses, declared lengths and header values a HEAD response may have.
HeadStatuses == {200, 204, 206, 301, 403, 404, 405, 500}
HeadLengths == {None, Some(0), Some(ContentLen)}
AcceptRangesValues ==
  {None, Some(BytesText), Some(<<"B", "Y", "T", "E", "S">>),
   Some(<<"B", "y", "t", "e", "s">>), Some(<<"n", "o", "n", "e">>),
   Some(<<"b", "y", "t", "e">>), Some(<<"b", "y", "t", "\\xE9", "s">>)}
ContentTypeValues ==
  {None, Some(OctetStream), Some(<<"t", "e", "x", "t", "/", "c", "s", "s">>),
   Some(<<"T", "e", "x", "t", "/", "C", "S", "S">>),
   Some(<<"t", "\\xE9", "x", "t">>)}

\* HeaderValue::to_str().ok(): the text of a value of visible ASCII only.
ToStr(value) ==
  IF \A i \in 1..Len(value) : value[i] \notin NonAscii
  THEN Some(value) ELSE None

\* headers().get(name).and_then(|v| v.to_str().ok())  (lib.rs:54-55, 60-61)
HeaderText(header) == IF IsSome(header) THEN ToStr(header[1]) ELSE None

\* lib.rs:51: response.content_length().unwrap_or(0); content_length() is
\* taken, as reqwest documents it, to be the length the response declares.
SizeOf(content_length) ==
  IF IsSome(content_length) THEN content_length[1] ELSE 0

\* SupportsRange comparing the value as written.
SupportsRange_CaseSensitive(header) ==
  IF IsSome(HeaderText(header)) THEN HeaderText(header)[1] = BytesText
  ELSE FALSE

\* lib.rs:52-57: .map(|v| v.eq_ignore_ascii_case("bytes")).unwrap_or(false)
SupportsRange(header) ==
  IF IsSome(HeaderText(header))
  THEN EqIgnoreAsciiCase(HeaderText(header)[1], BytesText)
  ELSE FALSE

\* lib.rs:58-63: .unwrap_or("application/octet-stream").to_string()
ContentTypeOf(header) ==
  IF IsSome(HeaderText(header)) THEN HeaderText(header)[1] ELSE OctetStream

\* lib.rs:50-64
MakeFileInfo(content_length, accept_ranges, content_type) ==
  [size |-> SizeOf(content_length),
   supports_range |-> SupportsRange(accept_ranges),
   content_type |-> ContentTypeOf(content_type)]

\* lib.rs:42-46: Runtime::new()? or Client::builder().build()? fails.
ProbeSetupFail(kind) ==
  /\ ppc = "idle"
  /\ pError' = Some(kind)
  /\ ppc' = "done"
  /\ UNCHANGED <<headStatus, headLength, headAcceptRanges, headContentType,
                 info>>
  /\ UNCHANGED <<downloadVars, verifyVars>>

\* lib.rs:42-48: the client is built and the HEAD request is on its way.
ProbeSend ==
  /\ ppc = "idle"
  /\ ppc' = "sent"
  /\ UNCHANGED <<headStatus, headLength, headAcceptRanges, headContentType,
                 info, pError>>
  /\ UNCHANGED <<downloadVars, verifyVars>>

\* lib.rs:48: send().await? fails (connect, timeout, transport).
ProbeSendFail ==
  /\ ppc = "sent"
  /\ pError' = Some("NetworkError")
  /\ ppc' = "done"
  /\ UNCHANGED <<headStatus, headLength, headAcceptRanges, headContentType,
                 info>>
  /\ UNCHANGED <<downloadVars, verifyVars>>

\* lib.rs:48-66: a response arrives, of whatever status; the FileInfo is built
\* from its headers.
ProbeRecv(status, cl, ar, ct) ==
  /\ ppc = "sent"
  /\ headStatus' = status
  /\ headLength' = cl
  /\ headAcceptRanges' = ar
  /\ headContentType' = ct
  /\ info' = Some(MakeFileInfo(cl, ar, ct))
  /\ ppc' = "done"
  /\ UNCHANGED pError
  /\ UNCHANGED <<downloadVars, verifyVars>>

ProbeNext ==
  \/ \E kind \in HardErrors : ProbeSetupFail(kind)
  \/ ProbeSend
  \/ ProbeSendFail
  \/ \E status \in HeadStatuses, cl \in HeadLengths,
        ar \in AcceptRangesValues, ct \in ContentTypeValues :
       ProbeRecv(status, cl, ar, ct)

\* ------------------------------------------------------- specifications

Init == DownloadInit /\ VerifyIdle /\ ProbeIdle

Next == DownloadNext

Spec == Init /\ [][Next]_vars

InitVerify == DownloadInit /\ VerifyInit /\ ProbeIdle

SpecVerify == InitVerify /\ [][VerifyNext]_vars

SpecProbe == Init /\ [][ProbeNext]_vars


\* ------------------------------------------------- claims: download_file

RECURSIVE SumSeq(_)
SumSeq(q) == IF q = << >> THEN 0 ELSE q[1] + SumSeq(Tail(q))

Status == response[1].status
TheResult == result[1]

\* C1: against a server that serves fixed content and honours Range, a
\* download to a fresh path that stops anywhere (or completes), followed by a
\* second call with resume=true that is neither cancelled nor hit by a hard
\* error, leaves a file byte-identical to the one a single non-resumed
\* download produces, which is the remote content.
C1_ResumeRoundTrip ==
  /\ (honest /\ callNo = 1 /\ ~resume /\ endedBy = "exhausted")
       => (fileExists /\ fileData = Content)
  /\ (honest /\ callNo = 2 /\ resume /\ endedBy \in {"exhausted", "soft"})
       => (fileExists /\ fileData = Content)

\* C1 witness: the second call resumed from a proper, non-empty prefix and ran
\* to the end of the stream.
C1_Witness ==
  /\ honest /\ callNo = 2 /\ resume /\ endedBy = "exhausted"
  /\ 0 < start_pos /\ start_pos < ContentLen
  /\ fileData = Content

\* C2: on a resume attempt (start_pos > 0) answered with status 200 and the
\* full body, the call that runs to the end of the stream leaves the file equal
\* to the remote content.
C2_RangeIgnoredRestarts ==
  (/\ endedBy = "exhausted" /\ start_pos > 0
   /\ Status = 200 /\ response[1].body = Content)
    => fileData = Content

\* C3: whenever the response status is not 2xx the call returns normally with
\* success=false, bytes_downloaded=0 and a message holding the status code,
\* writes nothing and leaves the output path as it was.
C3_SoftFailure ==
  (IsSome(response) /\ ~(200 <= Status /\ Status <= 299))
    => /\ pc = "done" /\ error = None /\ IsSome(result)
       /\ TheResult.success = FALSE
       /\ TheResult.bytes_downloaded = 0
       /\ IsSome(TheResult.error_message)
       /\ TheResult.error_message[1].code = Status
       /\ ~opened /\ nWritten = 0 /\ chunkLens = << >>
       /\ fileExists = startExists /\ fileData = startData

\* C3 witness: a 404 with resume=false over an existing non-empty file.
C3_Witness ==
  /\ IsSome(response) /\ Status = 404 /\ IsSome(result)
  /\ ~resume /\ startExists /\ startData # << >>

\* C4: when the callback fails on its k-th invocation the call ends at once: no
\* further chunk is read or written, and the result is success=true with no
\* message and bytes_downloaded = start_pos + the lengths of the first k
\* chunks, which is what is on disk; after the first chunk of a fresh download
\* that is the length of that chunk.
C4_Cancellation ==
  cancelled
    => /\ pc = "done" /\ error = None /\ IsSome(result)
       /\ TheResult.success = TRUE
       /\ TheResult.error_message = None
       /\ Len(chunkLens) = nCallbacks /\ nWritten = nCallbacks
       /\ TheResult.bytes_downloaded = start_pos + SumSeq(chunkLens)
       /\ TheResult.bytes_downloaded = Len(fileData)
       /\ (start_pos = 0 /\ nCallbacks = 1)
            => TheResult.bytes_downloaded = chunkLens[1]

\* C4 witness: a fresh download cancelled after its first chunk, with more of
\* the body still to come.
C4_Witness ==
  /\ cancelled /\ start_pos = 0 /\ nCallbacks = 1 /\ stream # << >>
  /\ IsSome(result) /\ TheResult.bytes_downloaded = chunkLens[1]

HardEndings == {"setup", "send", "open", "read", "write"}

\* C5: a transport error on the request or on a chunk, and an I/O error on
\* opening or writing the file, end the call with a propagated error and no
\* DownloadResult; nothing is read or written after it and the callback is not
\* invoked for the failed chunk.
C5_HardErrors ==
  endedBy \in HardEndings
    => /\ pc = "done" /\ result = None /\ IsSome(error)
       /\ endedBy \in {"send", "read"} => error[1] = "NetworkError"
       /\ endedBy \in {"open", "write"} => error[1] = "IoError"
       /\ endedBy \in {"setup", "send", "open"}
            => (chunkLens = << >> /\ nWritten = 0 /\ nCallbacks = 0)
       /\ endedBy = "read" => Len(chunkLens) = nWritten
       /\ endedBy = "write" => Len(chunkLens) = nWritten + 1
       /\ nCallbacks = (IF hasCallback THEN nWritten ELSE 0)
       /\ ~cancelled

\* C5 witness: a write fails on the second chunk of a call with a callback.
C5_Witness ==
  /\ endedBy = "write" /\ hasCallback /\ nWritten = 1 /\ nCallbacks = 1
  /\ IsSome(error) /\ result = None

\* C6: every success result has bytes_downloaded equal to the on-disk length
\* of the output file at return.
C6_BytesDownloadedIsFileLength ==
  (IsSome(result) /\ TheResult.success)
    => (fileExists /\ TheResult.bytes_downloaded = Len(fileData))

\* C6 witness: a resumed call that appended to a non-empty prefix.
C6_Witness ==
  /\ IsSome(result) /\ TheResult.success
  /\ start_pos > 0 /\ nWritten > 0
  /\ TheResult.bytes_downloaded = Len(fileData)

\* C7: a call that has ended has exactly one of a propagated error and a
\* result, a call that has not ended has neither, and a result carries an
\* error_message exactly when success is false.
C7_ThreeOutcomes ==
  /\ pc = "done" => (IsSome(error) /\ result = None)
                      \/ (error = None /\ IsSome(result))
  /\ pc # "done" => (error = None /\ result = None)
  /\ IsSome(result)
       => (IsSome(TheResult.error_message) <=> ~TheResult.success)

\* C7 witness: a soft-failure result, which carries a message.
C7_Witness ==
  /\ pc = "done" /\ IsSome(result) /\ ~TheResult.success
  /\ IsSome(TheResult.error_message) /\ error = None


\* ----------------------------------------------- claims: verify_checksum

\* The algorithm argument is, ignoring case, one of the two supported names.
NamesSha256 == EqIgnoreAsciiCase(algorithm, Sha256Name)
NamesMd5 == EqIgnoreAsciiCase(algorithm, Md5Name)

\* C8: with an algorithm name that is not, ignoring case, sha256 or md5, the
\* call fails with a ConfigurationError and the file is never opened or read,
\* whether or not it exists; a supported name in any case never fails so, and
\* two names that differ only in case select the same algorithm.
C8_UnsupportedAlgorithm ==
  /\ ~(NamesSha256 \/ NamesMd5)
       => /\ ~vOpened /\ nReads = 0 /\ vResult = None
          /\ vpc \in {"idle", "done"}
          /\ vpc = "done" => vError = Some("ConfigurationError")
  /\ (NamesSha256 \/ NamesMd5) => vError # Some("ConfigurationError")
  /\ \A a \in AlgorithmNames, b \in AlgorithmNames :
       EqIgnoreAsciiCase(a, b) => SelectAlgorithm(a) = SelectAlgorithm(b)

\* C8 witness: an unsupported name and a file that does not exist: the
\* outcome is the ConfigurationError.
C8_Witness ==
  /\ ~(NamesSha256 \/ NamesMd5) /\ ~vExists
  /\ vpc = "done" /\ vError = Some("ConfigurationError")

\* C9: a boolean is returned only after the file was read to its end; it is
\* true exactly when the digest of the whole content, however the reads were
\* split, equals the expected string ignoring case; a mismatch is the boolean
\* false; an error returns no boolean.
C9_VerifyWholeFile ==
  /\ IsSome(vResult)
       => /\ vpc = "done" /\ vError = None /\ vOpened
          /\ NamesSha256 \/ NamesMd5
          /\ vPos = Len(vData)
          /\ vResult[1] <=>
               (ToLowercase(expected)
                  = DigestOf(IF NamesSha256 THEN "sha256" ELSE "md5", vData))
  /\ IsSome(vError) => vResult = None
  /\ vpc = "done" => (IsSome(vResult) \/ IsSome(vError))

\* C9 witness: a file longer than the buffer, read one byte at a time, whose
\* digest matches an expected string written in upper case.
C9_Witness ==
  /\ IsSome(vResult) /\ vResult[1] = TRUE
  /\ Len(vData) = MaxFileLen /\ nReads = Len(vData) + 1
  /\ expected # ToLowercase(expected)

\* ------------------------------------------------- claims: get_file_info

AllVisibleAscii(value) == \A i \in 1..Len(value) : value[i] \notin NonAscii

\* What C10 says of the size and supports_range fields, and of the outcome:
\* a response of any status gives a FileInfo and no error.
C10_Common ==
  /\ pError = None /\ IsSome(info)
  /\ info[1].size = (IF IsSome(headLength) THEN headLength[1] ELSE 0)
  /\ info[1].supports_range
       <=> (/\ IsSome(headAcceptRanges)
            /\ ToLowercase(headAcceptRanges[1]) = BytesText)

\* C10 as stated: once a response of any status has arrived the call returns
\* a FileInfo, whose content_type is the Content-Type header, or
\* application/octet-stream when the header is absent.
C10_ProbeAsStated ==
  headStatus # 0
    => /\ C10_Common
       /\ info[1].content_type
            = (IF IsSome(headContentType) THEN headContentType[1]
               ELSE OctetStream)

\* C10 amended: as stated, but content_type is the Content-Type header only
\* when it is present and made of visible ASCII, and application/octet-stream
\* when it is absent or holds any other byte; the call fails only when no
\* response has arrived.
C10_Probe ==
  /\ headStatus # 0
       => /\ C10_Common
          /\ info[1].content_type
               = (IF IsSome(headContentType) /\ AllVisibleAscii(headContentType[1])
                  THEN headContentType[1] ELSE OctetStream)
  /\ IsSome(pError) => (headStatus = 0 /\ info = None)

\* C10 witness: a 404 whose Content-Type is not visible ASCII and whose
\* Accept-Ranges is BYTES: a FileInfo with the default type and range support.
C10_Witness ==
  /\ headStatus = 404 /\ IsSome(info)
  /\ IsSome(headContentType) /\ ~AllVisibleAscii(headContentType[1])
  /\ info[1].content_type = OctetStream
  /\ headAcceptRanges = Some(<<"B", "Y", "T", "E", "S">>)
  /\ info[1].supports_range

\* ---------------------------------------- claims: download_file, behaviour

\* C11: the total_size handed to every callback invocation is the response's
\* content length plus start_pos when the length is declared, and 0 when the
\* server omits it, also on a resumed download.
C11_TotalSize ==
  \A i \in 1..Len(cbArgs) :
    cbArgs[i][2] = (IF IsSome(response[1].content_length)
                    THEN response[1].content_length[1] + start_pos
                    ELSE 0)

\* The lengths of the chunks written in full, in order.
WrittenLens == Take(chunkLens, nWritten)

\* C12: from the moment the file is open, downloaded is start_pos plus the
\* lengths of the chunks written so far, hence never below start_pos, and
\* within a call no step decreases it.
C12_DownloadedMonotonic ==
  /\ [](opened => /\ downloaded >= start_pos
                  /\ downloaded = start_pos + SumSeq(WrittenLens))
  /\ [][(callNo' = callNo /\ pc' # "idle") => downloaded' >= downloaded]_vars

\* C12 witness: a resumed call that has written two chunks after its prefix.
C12_Witness ==
  /\ opened /\ start_pos > 0 /\ nWritten = 2
  /\ downloaded = start_pos + chunkLens[1] + chunkLens[2]

\* C13: with a callback supplied, it is invoked once per chunk, after the
\* chunk is written and before the next is read, with downloaded = start_pos +
\* the lengths of the chunks written so far; no chunk is read or written while
\* an invocation is outstanding; the last invocation's downloaded is the
\* result's bytes_downloaded.  Without a callback there is no invocation.
C13_ProgressOrdering ==
  /\ Len(cbArgs) = nCallbacks
  /\ ~hasCallback => nCallbacks = 0
  /\ hasCallback
       => /\ pc = "stream" => (nCallbacks = nWritten /\ Len(chunkLens) = nWritten)
          /\ pc = "write" => (nCallbacks = nWritten /\ Len(chunkLens) = nWritten + 1)
          /\ pc = "callback"
               => (nCallbacks + 1 = nWritten /\ Len(chunkLens) = nWritten)
          /\ IsSome(result) => (nCallbacks = nWritten /\ Len(chunkLens) = nWritten)
  /\ \A i \in 1..Len(cbArgs) :
       cbArgs[i][1] = start_pos + SumSeq(Take(chunkLens, i))
  /\ (IsSome(result) /\ nCallbacks > 0)
       => cbArgs[nCallbacks][1] = TheResult.bytes_downloaded

\* C13 witness: a call that ran to the end of the stream with two invocations.
C13_Witness ==
  /\ hasCallback /\ endedBy = "exhausted" /\ nCallbacks = 2 /\ start_pos > 0
  /\ cbArgs[2][1] = TheResult.bytes_downloaded

\* C14: start_pos is the on-disk length of the output file when resume is
\* requested and the path exists, and 0 otherwise; the GET carries
\* Range: bytes=<start_pos>- exactly when start_pos > 0.
C14_StartOffsetAndRange ==
  (pc = "send" \/ nRequests > 0)
    => /\ start_pos = (IF resume /\ startExists THEN Len(startData) ELSE 0)
       /\ IsSome(reqRange) <=> start_pos > 0
       /\ IsSome(reqRange) => reqRange[1] = start_pos
       /\ ~resume => reqRange = None

\* C14 witness: resume=true on an existing file of length 0: a request is
\* sent and carries no Range header.
C14_Witness ==
  /\ resume /\ startExists /\ startData = << >>
  /\ nRequests = 1 /\ reqRange = None /\ start_pos = 0

\* What the file held when the call opened it.
BaseData == IF start_pos > 0 THEN startData ELSE << >>

\* C15: once the file is open, its earlier bytes are kept as a prefix and the
\* body's bytes follow them exactly when start_pos > 0; otherwise the file
\* starts empty, whatever it held, and holds only bytes of the body, also when
\* the stream delivers nothing or fails.
C15_OpenMode ==
  opened
    => /\ fileExists
       /\ IsPrefix(BaseData, fileData)
       /\ IsPrefix(Drop(fileData, Len(BaseData)), response[1].body)
       /\ Len(fileData) >= Len(BaseData) + SumSeq(WrittenLens)

\* C15 witness: resume=false over a non-empty file, the stream fails before
\* its first chunk: the file is left empty.
C15_Witness ==
  /\ opened /\ ~resume /\ startExists /\ startData # << >>
  /\ endedBy = "read" /\ chunkLens = << >>
  /\ fileExists /\ fileData = << >>

\* C16: a call sends one GET request and no more; a failed request, read or
\* write ends it at once and an ended call does nothing further; the chunks
\* read are consecutive pieces of the body, each read once and written at
\* most once.
C16_NoRetries ==
  /\ [](/\ nRequests <= 1
        /\ pc \in {"stream", "write", "callback"} => nRequests = 1
        /\ IsSome(response) => nRequests = 1
        /\ endedBy # "none" => pc = "done"
        /\ opened
             => /\ SumSeq(chunkLens) + Len(stream) = Len(response[1].body)
                /\ stream = Drop(response[1].body, SumSeq(chunkLens))
                /\ nWritten <= Len(chunkLens) /\ Len(chunkLens) <= nWritten + 1
                /\ Len(fileData) <= Len(BaseData) + SumSeq(chunkLens))
  /\ [][pc = "done" => pc' = "idle"]_vars

\* C16 witness: a read fails after one chunk with more of the body to come:
\* the call is over after its single request.
C16_Witness ==
  /\ endedBy = "read" /\ nRequests = 1 /\ nWritten = 1 /\ stream # << >>
  /\ pc = "done"

\* C17: the file is opened only after a response with an accepted status;
\* until then, and in a call that ends with a failed request or a soft
\* failure, the path is as it was before the call.
C17_OpenAfterResponse ==
  /\ opened => (IsSome(response) /\ 200 <= Status /\ Status <= 299)
  /\ (~opened /\ pc # "idle")
       => (fileExists = startExists /\ fileData = startData)
  /\ endedBy \in {"send", "soft"} => ~opened

\* C17 witness: resume=false over a non-empty file and the request fails:
\* the file is untouched.
C17_Witness ==
  /\ endedBy = "send" /\ ~resume /\ startExists /\ startData # << >>
  /\ fileExists /\ fileData = startData

\* The response of this call is the one the Range-honouring server gives.
ThisCallHonest ==
  /\ IsSome(response)
  /\ response[1].status = HonestResponse(reqRange).status
  /\ response[1].body = HonestResponse(reqRange).body

\* The output file at the start of the call is absent or, with resume=true, a
\* prefix of the remote content.
StartsClean == ~startExists \/ (resume /\ IsPrefix(startData, Content))

\* In such a call the file on disk is at every moment a prefix of the content.
PrefixOnDisk ==
  (StartsClean /\ pc # "idle" /\ (response = None \/ ThisCallHonest))
    => IsPrefix(fileData, Content)

\* C18 as stated: in a call that starts from an absent file or resumes a
\* prefix, against the Range-honouring server, the file on disk is always a
\* prefix of the remote content and, once downloaded exists, its length equals
\* downloaded, also in the state a hard failure leaves behind.
C18_PrefixAsStated ==
  /\ PrefixOnDisk
  /\ (opened /\ StartsClean /\ ThisCallHonest) => Len(fileData) = downloaded

\* C18 amended: as stated, except that after a write_all that failed the
\* file's length is downloaded plus the part of the failed chunk that reached
\* the file, which is less than the chunk.
C18_Prefix ==
  /\ PrefixOnDisk
  /\ (opened /\ StartsClean /\ ThisCallHonest)
       => IF endedBy = "write"
          THEN /\ downloaded <= Len(fileData)
               /\ Len(fileData) < downloaded + Len(chunk)
          ELSE Len(fileData) = downloaded

\* C18 witness: a resumed call whose write fails after part of a chunk reached
\* the file: the file is a longer prefix than downloaded says.
C18_Witness ==
  /\ opened /\ StartsClean /\ ThisCallHonest /\ start_pos > 0
  /\ endedBy = "write" /\ Len(fileData) > downloaded
  /\ IsPrefix(fileData, Content)

\* The call resumes a file whose length is already the full remote size.
ResumesComplete == resume /\ startExists /\ Len(startData) = ContentLen

=============================================================================
